---- MODULE Spec2Model ----
(***************************************************************************)
(* Model of src/main.py: the Aliyun CDN tool server.                       *)
(*                                                                         *)
(* Python strings are sequences of characters.  A keyword the code looks   *)
(* for with `in` is one element of the sequence (an atom) with an ASCII    *)
(* name; the Chinese original is given where the atom is defined.  None is *)
(* the record None; an optional draft field is <<>> (None) or <<v>>.       *)
(* A call of a function of main.py yields Ok(value) or Raise(exception).   *)
(***************************************************************************)
EXTENDS Integers, Sequences, FiniteSets, TLC

VARIABLES
    pc,      \* position of the running tool call: "idle", "scan", "cache", "done"
    op,      \* name of the function that was invoked
    input,   \* its arguments
    lines,   \* setup_cdn_with_text: the stripped non-empty lines (main.py:378)
    idx,     \* setup_cdn_with_text: index of the next line of the for loop
    draft,   \* setup_cdn_with_text: the locals of main.py:381-386
    calls,   \* requests received by cdn_client, in order, each with its outcome
    result   \* what the invocation returned or raised

vars == <<pc, op, input, lines, idx, draft, calls, result>>

----------------------------------------------------------------------------
(* Bounds of the model *)

MaxStrLen == 4      \* length of the shorthand strings given to the parsers
MaxChunks == 3      \* pieces an origin shorthand string is assembled from
MaxItems  == 2      \* length of a list argument of a tool
MaxLines  == 2      \* raw lines of the text of setup_cdn_with_text

----------------------------------------------------------------------------
(* Python values and string operations *)

None == [none |-> TRUE]
Ok(v) == [exc |-> "none", val |-> v]
Raise(e) == [exc |-> e]

Digits == {"0", "1", "2", "3", "4", "5", "6", "7", "8", "9"}
Whitespace == {" ", "\n"}

DigitVal(c) ==
    CASE c = "0" -> 0 [] c = "1" -> 1 [] c = "2" -> 2 [] c = "3" -> 3
      [] c = "4" -> 4 [] c = "5" -> 5 [] c = "6" -> 6 [] c = "7" -> 7
      [] c = "8" -> 8 [] c = "9" -> 9

DigitChar(n) == <<"0", "1", "2", "3", "4", "5", "6", "7", "8", "9">>[n + 1]

At(s, i) == IF i \in 1..Len(s) THEN s[i] ELSE ""

IsDigits(s) == Len(s) > 0 /\ \A i \in 1..Len(s) : s[i] \in Digits

RECURSIVE LStrip(_)
LStrip(s) == IF s # <<>> /\ Head(s) \in Whitespace THEN LStrip(Tail(s)) ELSE s

RECURSIVE RStrip(_)
RStrip(s) ==
    IF s # <<>> /\ s[Len(s)] \in Whitespace
    THEN RStrip(SubSeq(s, 1, Len(s) - 1))
    ELSE s

\* str.strip()
Strip(s) == RStrip(LStrip(s))

\* str.split(sep) for a one-character separator: every occurrence splits
RECURSIVE Split(_, _)
Split(s, sep) ==
    IF \E i \in 1..Len(s) : s[i] = sep
    THEN LET i == CHOOSE k \in 1..Len(s) :
                      s[k] = sep /\ \A j \in 1..(k - 1) : s[j] # sep
         IN  <<SubSeq(s, 1, i - 1)>> \o Split(SubSeq(s, i + 1, Len(s)), sep)
    ELSE <<s>>

\* str.startswith(p)
StartsWith(s, p) == Len(s) >= Len(p) /\ SubSeq(s, 1, Len(p)) = p

\* p in s
Contains(s, p) ==
    \E i \in 1..(Len(s) - Len(p) + 1) : SubSeq(s, i, i + Len(p) - 1) = p

\* s.replace(p, ""): every non-overlapping occurrence, left to right
RECURSIVE RemoveAll(_, _)
RemoveAll(s, p) ==
    IF s = <<>> THEN <<>>
    ELSE IF StartsWith(s, p) THEN RemoveAll(SubSeq(s, Len(p) + 1, Len(s)), p)
    ELSE <<Head(s)>> \o RemoveAll(Tail(s), p)

RECURSIVE DigitsToNat(_)
DigitsToNat(d) ==
    IF d = <<>> THEN 0
    ELSE DigitsToNat(SubSeq(d, 1, Len(d) - 1)) * 10 + DigitVal(d[Len(d)])

\* int(s): surrounding whitespace and one sign are accepted
IntBody(s) ==
    LET t == Strip(s)
    IN  IF t # <<>> /\ Head(t) \in {"+", "-"} THEN Tail(t) ELSE t

IsIntLiteral(s) == IsDigits(IntBody(s))

IntOf(s) ==
    IF At(Strip(s), 1) = "-" THEN 0 - DigitsToNat(IntBody(s))
    ELSE DigitsToNat(IntBody(s))

RECURSIVE NatToStr(_)
NatToStr(n) ==
    IF n < 10 THEN <<DigitChar(n)>>
    ELSE NatToStr(n \div 10) \o <<DigitChar(n % 10)>>

\* str(n)
IntToStr(n) == IF n < 0 THEN <<"-">> \o NatToStr(0 - n) ELSE NatToStr(n)

\* index of the last character of the maximal digit run starting at i (i - 1 if none)
RECURSIVE RunEnd(_, _)
RunEnd(s, i) == IF At(s, i) \in Digits THEN RunEnd(s, i + 1) ELSE i - 1

\* re.findall(r'\d+', s): <<>> when the list is empty, else <<its element 0>>
FirstDigitRun(s) ==
    IF \E i \in 1..Len(s) : s[i] \in Digits
    THEN LET i == CHOOSE k \in 1..Len(s) :
                      s[k] \in Digits /\ \A j \in 1..(k - 1) : s[j] \notin Digits
         IN  <<SubSeq(s, i, RunEnd(s, i))>>
    ELSE <<>>

\* end of the match of \d+\.\d+\.\d+\.\d+ starting at i, 0 if there is none
QuadEndFrom(s, i) ==
    LET e1 == RunEnd(s, i)
        e2 == RunEnd(s, e1 + 2)
        e3 == RunEnd(s, e2 + 2)
        e4 == RunEnd(s, e3 + 2)
    IN  IF /\ e1 >= i      /\ At(s, e1 + 1) = "."
           /\ e2 >= e1 + 2 /\ At(s, e2 + 1) = "."
           /\ e3 >= e2 + 2 /\ At(s, e3 + 1) = "."
           /\ e4 >= e3 + 2
        THEN e4 ELSE 0

\* re.findall(r'\d+\.\d+\.\d+\.\d+', s): <<>> when empty, else <<its element 0>>
FirstQuad(s) ==
    IF \E i \in 1..Len(s) : QuadEndFrom(s, i) > 0
    THEN LET i == CHOOSE k \in 1..Len(s) :
                      QuadEndFrom(s, k) > 0 /\ \A j \in 1..(k - 1) : QuadEndFrom(s, j) = 0
         IN  <<SubSeq(s, i, QuadEndFrom(s, i))>>
    ELSE <<>>

\* re.match(r"^\d{1,3}(\.\d{1,3}){3}$", content)
IsDottedQuad(content) ==
    LET g == Split(content, ".")
    IN  Len(g) = 4 /\ \A i \in 1..4 : IsDigits(g[i]) /\ Len(g[i]) <= 3

----------------------------------------------------------------------------
(* The three normalizers *)

OssPrefix == <<"o", "s", "s", ":", "/", "/">>

StrArg(s) == [kind |-> "str", str |-> s]
DictArg(d) == [kind |-> "dict", dict |-> d]
OtherArg == [kind |-> "other"]

parse_source_info(source) ==
    IF source.kind = "dict" THEN Ok(source.dict)
    ELSE IF source.kind = "str" THEN
        IF StartsWith(source.str, OssPrefix)
        THEN Ok([type |-> "oss",
                 content |-> RemoveAll(source.str, OssPrefix),
                 port |-> 80])
        ELSE LET parts == Split(source.str, ":")
                 content == parts[1]
             IN  IF Len(parts) > 1 /\ ~IsIntLiteral(parts[2])
                 THEN Raise("ValueError")
                 ELSE Ok([type |-> IF IsDottedQuad(content) THEN "ipaddr" ELSE "domain",
                          content |-> content,
                          port |-> IF Len(parts) > 1 THEN IntOf(parts[2]) ELSE 80])
    ELSE Raise("ValueError")

\* the pattern is kept as written, no '/' is put in front of it
parse_cache_rule_keep_pattern(rule) ==
    IF rule.kind = "dict" THEN Ok(rule.dict)
    ELSE IF rule.kind = "str" THEN
        LET parts == Split(rule.str, ":")
        IN  IF Len(parts) # 2 THEN Raise("ValueError")
            ELSE IF ~IsIntLiteral(parts[2]) THEN Raise("ValueError")
            ELSE Ok([path_pattern |-> parts[1], ttl |-> IntOf(parts[2])])
    ELSE Raise("ValueError")

parse_cache_rule(rule) ==
    IF rule.kind = "dict" THEN Ok(rule.dict)
    ELSE IF rule.kind = "str" THEN
        LET parts == Split(rule.str, ":")
        IN  IF Len(parts) # 2 THEN Raise("ValueError")
            ELSE IF ~IsIntLiteral(parts[2]) THEN Raise("ValueError")
            ELSE Ok([path_pattern |-> IF StartsWith(parts[1], <<"/">>)
                                      THEN parts[1] ELSE <<"/">> \o parts[1],
                     ttl |-> IntOf(parts[2])])
    ELSE Raise("ValueError")

parse_header(header) ==
    IF header.kind = "dict" THEN Ok(header.dict)
    ELSE IF header.kind = "str" THEN
        LET parts == Split(header.str, ":")
        IN  IF Len(parts) # 2 THEN Raise("ValueError")
            ELSE Ok([key |-> Strip(parts[1]), value |-> Strip(parts[2])])
    ELSE Raise("ValueError")

----------------------------------------------------------------------------
(* The Domain Configuration Service (cdn_client) and the tool operations.   *)
(* A tool operation yields the requests it sent and what it returned:       *)
(* [calls |-> <<request, ...>>, result |-> Ok(..) or Raise(..)].  `ok` is   *)
(* the outcome the service gives to the request.                            *)

Msg(text, domain_name) == [text |-> text, domain |-> domain_name]

\* a client wrapper that sends a failed request a second time
InvokeWithRetry(request, ok, message) ==
    [calls |-> IF ok THEN <<[request |-> request, ok |-> TRUE]>>
               ELSE <<[request |-> request, ok |-> FALSE], [request |-> request, ok |-> FALSE]>>,
     result |-> IF ok THEN Ok(message) ELSE Raise("ServiceFailure")]

\* response = cdn_client.<api>(request); return f"... {domain_name} ..."
Invoke(request, ok, message) ==
    [calls |-> <<[request |-> request, ok |-> ok]>>,
     result |-> IF ok THEN Ok(message) ELSE Raise("ServiceFailure")]

\* the operation raised before it reached cdn_client
Abort(e) == [calls |-> <<>>, result |-> Raise(e)]

BatchRequest(domain_name, functionName, functionArgs) ==
    [api |-> "batch_set_cdn_domain_config",
     domain_names |-> domain_name,
     functions |-> <<[functionArgs |-> functionArgs, functionName |-> functionName]>>]

Arg(name, value) == [argName |-> name, argValue |-> value]

\* if isinstance(x, (str, dict)): x = [x]
Single(item) == [shape |-> "single", item |-> item]
List(items) == [shape |-> "list", items |-> items]
Wrap(arg) == IF arg.shape = "single" THEN <<arg.item>> ELSE arg.items

\* a list comprehension [parse(x) for x in xs] over results: the first exception wins
FirstRaise(rs) ==
    IF \E i \in 1..Len(rs) : rs[i].exc # "none"
    THEN LET i == CHOOSE k \in 1..Len(rs) :
                      rs[k].exc # "none" /\ \A j \in 1..(k - 1) : rs[j].exc = "none"
         IN  <<rs[i].exc>>
    ELSE <<>>

Values(rs) == [i \in 1..Len(rs) |-> rs[i].val]

add_cdn_domain(domain_name, sources, cdn_type, ok) ==
    LET rs == [i \in 1..Len(Wrap(sources)) |-> parse_source_info(Wrap(sources)[i])]
    IN  IF FirstRaise(rs) # <<>> THEN Abort(FirstRaise(rs)[1])
        ELSE Invoke([api |-> "add_cdn_domain",
                     domain_name |-> domain_name,
                     sources |-> Values(rs),
                     cdn_type |-> cdn_type],
                    ok, Msg("add-ok", domain_name))

delete_cdn_domain(domain_name, ok) ==
    Invoke([api |-> "delete_cdn_domain", domain_name |-> domain_name],
           ok, Msg("delete-ok", domain_name))

modify_cdn_source(domain_name, sources, ok) ==
    Invoke([api |-> "modify_cdn_domain", domain_name |-> domain_name, sources |-> sources],
           ok, Msg("source-ok", domain_name))

set_cdn_source_port(domain_name, port, ok) ==
    Invoke(BatchRequest(domain_name, "origin_port", <<Arg("port", IntToStr(port))>>),
           ok, Msg("port-ok", domain_name))

set_cdn_protocol(domain_name, protocol, ok) ==
    Invoke(BatchRequest(domain_name, "back_to_origin_protocol", <<Arg("protocol", protocol)>>),
           ok, Msg("protocol-ok", domain_name))

\* the pair of each rule in the other order, path before ttl
RECURSIVE CacheArgs_PathFirst(_)
CacheArgs_PathFirst(rules) ==
    IF rules = <<>> THEN <<>>
    ELSE <<Arg("path", Head(rules).path_pattern), Arg("ttl", IntToStr(Head(rules).ttl))>>
         \o CacheArgs_PathFirst(Tail(rules))

\* the loop of main.py:233-244
RECURSIVE CacheArgs(_)
CacheArgs(rules) ==
    IF rules = <<>> THEN <<>>
    ELSE <<Arg("ttl", IntToStr(Head(rules).ttl)), Arg("path", Head(rules).path_pattern)>>
         \o CacheArgs(Tail(rules))

HasKeys(d, keys) == keys \subseteq DOMAIN d

set_cdn_cache(domain_name, cache_rules, ok) ==
    LET rs == [i \in 1..Len(Wrap(cache_rules)) |-> parse_cache_rule(Wrap(cache_rules)[i])]
    IN  IF FirstRaise(rs) # <<>> THEN Abort(FirstRaise(rs)[1])
        ELSE IF \E i \in 1..Len(rs) : ~HasKeys(rs[i].val, {"ttl", "path_pattern"})
        THEN Abort("KeyError")
        ELSE Invoke(BatchRequest(domain_name, "cache_ttl", CacheArgs(Values(rs))),
                    ok, Msg("cache-ok", domain_name))

set_cdn_https(domain_name, ssl_protocol, cert_name, cert_type, ok) ==
    Invoke(BatchRequest(domain_name, "https",
                        <<Arg("ssl_protocol", ssl_protocol),
                          Arg("cert_name", cert_name),
                          Arg("cert_type", cert_type)>>),
           ok, Msg("https-ok", domain_name))

\* the loop of main.py:314-323
RECURSIVE HeaderArgs(_)
HeaderArgs(headers) ==
    IF headers = <<>> THEN <<>>
    ELSE <<Arg("key", Head(headers).key), Arg("value", Head(headers).value)>>
         \o HeaderArgs(Tail(headers))

set_cdn_headers(domain_name, headers, ok) ==
    LET rs == [i \in 1..Len(Wrap(headers)) |-> parse_header(Wrap(headers)[i])]
    IN  IF FirstRaise(rs) # <<>> THEN Abort(FirstRaise(rs)[1])
        ELSE IF \E i \in 1..Len(rs) : ~HasKeys(rs[i].val, {"key", "value"})
        THEN Abort("KeyError")
        ELSE Invoke(BatchRequest(domain_name, "custom_response_header",
                                 HeaderArgs(Values(rs))),
                    ok, Msg("headers-ok", domain_name))

----------------------------------------------------------------------------
(* setup_cdn_with_text: the keywords it looks for, one atom each *)

SUFFIX      == ".xiangyuncdn.com"
KW_ACCEL    == "{acceleration-type}"    \* 加速类型
KW_DOWNLOAD == "{large-file-download}"  \* 大文件下载
KW_IMAGE    == "{image}"                \* 图片
KW_SMALL    == "{small-file}"           \* 小文件
KW_AV       == "{audio-video}"          \* 视音频
KW_LIVE     == "{live}"                 \* 直播
KW_OTYPE    == "{origin-type}"          \* 源站类型
KW_IPADDR   == "{IP-address}"           \* IP地址
KW_PORT     == "{port}"                 \* 端口
KW_CACHE    == "{cache}"                \* 缓存
KW_VIDEO    == "{video}"                \* 视频
KW_HOUR     == "{hour}"                 \* 小时
KW_DAY      == "{day}"                  \* 天

Has(line, kw) == Contains(line, <<kw>>)

ImagePattern == <<"*.jpg", ",", "*.jpeg", ",", "*.png", ",", "*.gif">>
VideoPattern == <<"*.mp4", ",", "*.flv", ",", "*.m3u8">>
AnyPattern   == <<"*">>

EmptyDraft ==
    [domain_name |-> <<>>, cdn_type |-> <<>>, source_type |-> <<>>,
     source_ip |-> <<>>, source_port |-> <<>>, cache_rules |-> <<>>]

\* lines = [line.strip() for line in text.split('\n') if line.strip()]
NonBlank(line) == Strip(line) # <<>>
TextLines(text) ==
    LET raw == SelectSeq(Split(text, "\n"), NonBlank)
    IN  [i \in 1..Len(raw) |-> Strip(raw[i])]

\* main.py:394-402
AccelOf(d, line) ==
    IF Has(line, KW_DOWNLOAD) THEN [d EXCEPT !.cdn_type = <<"download">>]
    ELSE IF Contains(line, <<KW_IMAGE, KW_SMALL>>) \/ Has(line, KW_SMALL)
         THEN [d EXCEPT !.cdn_type = <<"web">>]
    ELSE IF Has(line, KW_AV) /\ Has(line, KW_LIVE) THEN [d EXCEPT !.cdn_type = <<"live">>]
    ELSE IF Has(line, KW_AV) THEN [d EXCEPT !.cdn_type = <<"video">>]
    ELSE d

\* main.py:405-411
OriginTypeOf(d, line) ==
    IF Has(line, "ipaddr") THEN [d EXCEPT !.source_type = <<"ipaddr">>]
    ELSE IF Has(line, "domain") THEN [d EXCEPT !.source_type = <<"domain">>]
    ELSE IF Has(line, "oss") THEN [d EXCEPT !.source_type = <<"oss">>]
    ELSE d

\* main.py:423-428
CachePattern(line) ==
    IF Has(line, KW_IMAGE) THEN ImagePattern
    ELSE IF Has(line, KW_VIDEO) THEN VideoPattern
    ELSE AnyPattern

\* main.py:431-435: Ok(hours), or IndexError from [0] on an empty findall
CacheHours(line) ==
    IF Has(line, KW_HOUR)
    THEN IF FirstDigitRun(line) = <<>> THEN Raise("IndexError")
         ELSE Ok(IntOf(FirstDigitRun(line)[1]))
    ELSE IF Has(line, KW_DAY)
    THEN IF FirstDigitRun(line) = <<>> THEN Raise("IndexError")
         ELSE Ok(IntOf(FirstDigitRun(line)[1]) * 24)
    ELSE Ok(1)

\* main.py:437-439
CacheRulesOf(line, hours) ==
    LET exts == Split(CachePattern(line), ",")
    IN  [i \in 1..Len(exts) |-> exts[i] \o <<":">> \o IntToStr(hours * 3600)]

\* the port branch tried before the domain branch
ProcessLine_PortFirst(d, line) ==
    IF Has(line, KW_PORT)
         THEN IF FirstDigitRun(line) = <<>> THEN Raise("IndexError")
              ELSE Ok([d EXCEPT !.source_port = <<IntOf(FirstDigitRun(line)[1])>>])
    ELSE IF Has(line, SUFFIX) THEN Ok([d EXCEPT !.domain_name = <<Strip(line)>>])
    ELSE IF Has(line, KW_ACCEL) THEN Ok(AccelOf(d, line))
    ELSE IF Has(line, KW_OTYPE) THEN Ok(OriginTypeOf(d, line))
    ELSE IF Has(line, KW_IPADDR)
         THEN IF FirstQuad(line) = <<>> THEN Raise("IndexError")
              ELSE Ok([d EXCEPT !.source_ip = <<FirstQuad(line)[1]>>])
    ELSE IF Has(line, KW_CACHE)
         THEN IF CacheHours(line).exc # "none" THEN CacheHours(line)
              ELSE Ok([d EXCEPT !.cache_rules =
                                   @ \o CacheRulesOf(line, CacheHours(line).val)])
    ELSE Ok(d)

\* one iteration of the for loop, main.py:388-439
ProcessLine(d, line) ==
    IF Has(line, SUFFIX) THEN Ok([d EXCEPT !.domain_name = <<Strip(line)>>])
    ELSE IF Has(line, KW_ACCEL) THEN Ok(AccelOf(d, line))
    ELSE IF Has(line, KW_OTYPE) THEN Ok(OriginTypeOf(d, line))
    ELSE IF Has(line, KW_IPADDR)
         THEN IF FirstQuad(line) = <<>> THEN Raise("IndexError")
              ELSE Ok([d EXCEPT !.source_ip = <<FirstQuad(line)[1]>>])
    ELSE IF Has(line, KW_PORT)
         THEN IF FirstDigitRun(line) = <<>> THEN Raise("IndexError")
              ELSE Ok([d EXCEPT !.source_port = <<IntOf(FirstDigitRun(line)[1])>>])
    ELSE IF Has(line, KW_CACHE)
         THEN IF CacheHours(line).exc # "none" THEN CacheHours(line)
              ELSE Ok([d EXCEPT !.cache_rules =
                                   @ \o CacheRulesOf(line, CacheHours(line).val)])
    ELSE Ok(d)

\* x or default
OrElse(opt, default) == IF opt = <<>> THEN default ELSE opt[1]

\* main.py:445-449
DraftSource(d) ==
    [type |-> OrElse(d.source_type, "ipaddr"),
     content |-> IF d.source_ip = <<>> THEN None ELSE d.source_ip[1],
     port |-> IF d.source_port = <<>> \/ d.source_port = <<0>> THEN 80
              ELSE d.source_port[1]]

\* if not domain_name
NoDomain(d) == d.domain_name = <<>> \/ d.domain_name = <<<<>>>>

MissingDomainMsg == [text |-> "no-domain-found"]        \* main.py:442
Summary(added) == [text |-> "setup-done", added |-> added]  \* main.py:462

----------------------------------------------------------------------------
(* Inputs *)

RECURSIVE Concats(_, _)
Concats(chunks, n) ==
    IF n = 0 THEN {<<>>}
    ELSE LET prev == Concats(chunks, n - 1)
         IN  prev \cup {p \o c : p \in prev, c \in chunks}

Strs(alphabet, n) == Concats({<<c>> : c \in alphabet}, n)

Lists(S, n) == UNION {[1..k -> S] : k \in 0..n}

Quad == <<"1", ".", "2", ".", "3", ".", "4">>
LongQuad == <<"1", "2", "3", "4", ".", "5", ".", "6", ".", "7">>

SourceChunks == {OssPrefix, Quad, <<":">>, <<"8", "0">>, <<"a">>, <<".">>}
SourceStrs == Concats(SourceChunks, MaxChunks)
RuleStrs == Strs({"/", "a", ":", "7"}, MaxStrLen)
HeaderStrs == Strs({"k", ":", " "}, MaxStrLen)

DomainNames == {<<"d">>}
CdnTypes == {"web", "download"}

SourceSamples ==
    {StrArg(Quad \o <<":", "8", "1">>), StrArg(OssPrefix \o <<"b">>),
     StrArg(<<"a", ":", "x">>), StrArg(<<"a">>),
     DictArg([type |-> "ipaddr", content |-> <<"a">>, port |-> 80])}

RuleSamples ==
    {StrArg(<<"*", ".", "j", "p", "g", ":", "3", "6", "0", "0">>),
     StrArg(<<"/", "a", ":", "0", "7">>), StrArg(<<"a", ":", "b">>),
     StrArg(<<"a", ":", "1", ":", "2">>), StrArg(<<"a">>),
     DictArg([path_pattern |-> <<"x">>, ttl |-> 5]),
     DictArg([path_pattern |-> <<"/", "y">>])}

HeaderSamples ==
    {StrArg(<<"k", ":", " ", "v">>), StrArg(<<"k", ":", "v", ":", "w">>),
     StrArg(<<"k">>), DictArg([key |-> <<"k">>, value |-> <<"v">>]),
     DictArg([key |-> <<"k">>])}

ListArgs(S) == {Single(x) : x \in S} \cup {List(l) : l \in Lists(S, MaxItems)}

RawLines ==
    {<<"a", SUFFIX>>, <<" ", "b", SUFFIX, " ">>, <<SUFFIX, KW_PORT, "8">>}
    \cup {<<KW_ACCEL>> \o k :
            k \in {<<>>, <<KW_CACHE, KW_DOWNLOAD>>, <<KW_IMAGE, KW_SMALL>>,
                   <<KW_AV>>, <<KW_LIVE, KW_AV>>}}
    \cup {<<KW_OTYPE>> \o k : k \in {<<>>, <<"ipaddr">>, <<"domain">>, <<"oss">>}}
    \cup {<<KW_IPADDR>> \o k : k \in {<<>>, Quad, LongQuad}}
    \cup {<<KW_PORT>> \o k :
            k \in {<<>>, <<"8", "1">>, <<"0">>, <<KW_CACHE, "2", KW_HOUR>>}}
    \cup {<<KW_CACHE>> \o k :
            k \in {<<>>, <<"2">>, <<KW_HOUR>>, <<KW_IMAGE, "1", KW_HOUR>>,
                   <<KW_VIDEO, "2", KW_DAY>>, <<"1", KW_DAY, "3", KW_HOUR>>}}
    \cup {<<"x">>, <<" ">>}

RECURSIVE JoinLines(_)
JoinLines(ls) ==
    IF ls = <<>> THEN <<>>
    ELSE IF Len(ls) = 1 THEN ls[1]
    ELSE ls[1] \o <<"\n">> \o JoinLines(Tail(ls))

Texts == {JoinLines(ls) : ls \in Lists(RawLines, MaxLines)}

----------------------------------------------------------------------------
(* The state machine: one tool invocation per behaviour *)

Init ==
    /\ pc = "idle" /\ op = "none" /\ input = <<>>
    /\ lines = <<>> /\ idx = 1 /\ draft = EmptyDraft
    /\ calls = <<>> /\ result = None

\* a function that runs to its end in one step
Finish(name, args, run) ==
    /\ pc' = "done" /\ op' = name /\ input' = args
    /\ calls' = calls \o run.calls /\ result' = run.result
    /\ UNCHANGED <<lines, idx, draft>>

ParseSourceInfo ==
    /\ pc = "idle"
    /\ \E a \in {StrArg(s) : s \in SourceStrs} \cup SourceSamples \cup {OtherArg} :
           Finish("parse_source_info", a, [calls |-> <<>>, result |-> parse_source_info(a)])

ParseCacheRule ==
    /\ pc = "idle"
    /\ \E a \in {StrArg(s) : s \in RuleStrs} \cup RuleSamples \cup {OtherArg} :
           Finish("parse_cache_rule", a, [calls |-> <<>>, result |-> parse_cache_rule(a)])

ParseHeader ==
    /\ pc = "idle"
    /\ \E a \in {StrArg(s) : s \in HeaderStrs} \cup HeaderSamples \cup {OtherArg} :
           Finish("parse_header", a, [calls |-> <<>>, result |-> parse_header(a)])

AddCdnDomain ==
    /\ pc = "idle"
    /\ \E dn \in DomainNames, a \in ListArgs(SourceSamples), t \in CdnTypes, ok \in BOOLEAN :
           Finish("add_cdn_domain", [domain_name |-> dn, sources |-> a, cdn_type |-> t],
                  add_cdn_domain(dn, a, t, ok))

DeleteCdnDomain ==
    /\ pc = "idle"
    /\ \E dn \in DomainNames, ok \in BOOLEAN :
           Finish("delete_cdn_domain", [domain_name |-> dn], delete_cdn_domain(dn, ok))

ModifyCdnSource ==
    /\ pc = "idle"
    /\ \E dn \in DomainNames, ok \in BOOLEAN,
          a \in Lists({[type |-> "ipaddr", content |-> Quad, port |-> 80],
                       [type |-> "oss", content |-> <<"b">>, port |-> 80]}, MaxItems) :
           Finish("modify_cdn_source", [domain_name |-> dn, sources |-> a],
                  modify_cdn_source(dn, a, ok))

SetCdnSourcePort ==
    /\ pc = "idle"
    /\ \E dn \in DomainNames, p \in {80, 443}, ok \in BOOLEAN :
           Finish("set_cdn_source_port", [domain_name |-> dn, port |-> p],
                  set_cdn_source_port(dn, p, ok))

SetCdnProtocol ==
    /\ pc = "idle"
    /\ \E dn \in DomainNames, p \in {"HTTP", "HTTPS", "FOLLOW"}, ok \in BOOLEAN :
           Finish("set_cdn_protocol", [domain_name |-> dn, protocol |-> p],
                  set_cdn_protocol(dn, p, ok))

SetCdnCache ==
    /\ pc = "idle"
    /\ \E dn \in DomainNames, a \in ListArgs(RuleSamples), ok \in BOOLEAN :
           Finish("set_cdn_cache", [domain_name |-> dn, cache_rules |-> a],
                  set_cdn_cache(dn, a, ok))

SetCdnHttps ==
    /\ pc = "idle"
    /\ \E dn \in DomainNames, s \in {"on", "off"}, ok \in BOOLEAN :
           Finish("set_cdn_https",
                  [domain_name |-> dn, ssl_protocol |-> s, cert_name |-> "c", cert_type |-> "upload"],
                  set_cdn_https(dn, s, "c", "upload", ok))

SetCdnHeaders ==
    /\ pc = "idle"
    /\ \E dn \in DomainNames, a \in ListArgs(HeaderSamples), ok \in BOOLEAN :
           Finish("set_cdn_headers", [domain_name |-> dn, headers |-> a],
                  set_cdn_headers(dn, a, ok))

\* main.py:378-386
SetupStart ==
    /\ pc = "idle"
    /\ \E text \in Texts :
        /\ input' = text
        /\ lines' = TextLines(text)
    /\ pc' = "scan" /\ op' = "setup_cdn_with_text"
    /\ idx' = 1 /\ draft' = EmptyDraft
    /\ UNCHANGED <<calls, result>>

\* main.py:388-439, one line
ScanLine ==
    /\ pc = "scan" /\ idx <= Len(lines)
    /\ LET r == ProcessLine(draft, lines[idx])
       IN  IF r.exc # "none"
           THEN /\ pc' = "done" /\ result' = r
                /\ UNCHANGED <<idx, draft>>
           ELSE /\ draft' = r.val /\ idx' = idx + 1
                /\ UNCHANGED <<pc, result>>
    /\ UNCHANGED <<op, input, lines, calls>>

\* main.py:441-442
SetupNoDomain ==
    /\ pc = "scan" /\ idx > Len(lines) /\ NoDomain(draft)
    /\ pc' = "done" /\ result' = Ok(MissingDomainMsg)
    /\ UNCHANGED <<op, input, lines, idx, draft, calls>>

\* main.py:444-456
SetupAddDomain ==
    /\ pc = "scan" /\ idx > Len(lines) /\ ~NoDomain(draft)
    /\ \E ok \in BOOLEAN :
        LET run == add_cdn_domain(draft.domain_name[1], Single(DictArg(DraftSource(draft))),
                                  OrElse(draft.cdn_type, "web"), ok)
        IN  /\ calls' = calls \o run.calls
            /\ result' = run.result
            /\ pc' = IF run.result.exc # "none" THEN "done" ELSE "cache"
    /\ UNCHANGED <<op, input, lines, idx, draft>>

\* set_cdn_cache called without the test `if cache_rules`
SetupSetCache_Unguarded ==
    /\ pc = "cache"
    /\ \E ok \in BOOLEAN :
        LET run == set_cdn_cache(
                       draft.domain_name[1],
                       List([i \in 1..Len(draft.cache_rules) |->
                                StrArg(draft.cache_rules[i])]),
                       ok)
        IN  /\ calls' = calls \o run.calls
            /\ result' = IF run.result.exc # "none" THEN run.result
                         ELSE Ok(Summary(result.val))
    /\ pc' = "done"
    /\ UNCHANGED <<op, input, lines, idx, draft>>

\* main.py:458-462
SetupSetCache ==
    /\ pc = "cache"
    /\ IF draft.cache_rules # <<>>
       THEN \E ok \in BOOLEAN :
            LET run == set_cdn_cache(
                           draft.domain_name[1],
                           List([i \in 1..Len(draft.cache_rules) |->
                                    StrArg(draft.cache_rules[i])]),
                           ok)
            IN  /\ calls' = calls \o run.calls
                /\ result' = IF run.result.exc # "none" THEN run.result
                             ELSE Ok(Summary(result.val))
       ELSE /\ result' = Ok(Summary(result.val))
            /\ UNCHANGED calls
    /\ pc' = "done"
    /\ UNCHANGED <<op, input, lines, idx, draft>>

Next ==
    \/ ParseSourceInfo \/ ParseCacheRule \/ ParseHeader
    \/ AddCdnDomain \/ DeleteCdnDomain \/ ModifyCdnSource
    \/ SetCdnSourcePort \/ SetCdnProtocol \/ SetCdnCache
    \/ SetCdnHttps \/ SetCdnHeaders
    \/ SetupStart \/ ScanLine \/ SetupNoDomain \/ SetupAddDomain \/ SetupSetCache

Spec == Init /\ [][Next]_vars

----------------------------------------------------------------------------
(* Vocabulary of the properties *)

Done == pc = "done"

DirectOps ==
    {"add_cdn_domain", "delete_cdn_domain", "modify_cdn_source", "set_cdn_source_port",
     "set_cdn_protocol", "set_cdn_cache", "set_cdn_https", "set_cdn_headers"}

Colons(s) == Cardinality({i \in 1..Len(s) : s[i] = ":"})

FirstColon(s) == CHOOSE k \in 1..Len(s) : s[k] = ":" /\ \A j \in 1..(k - 1) : s[j] # ":"

\* the text before the first colon, and the text after it
LeftOf(s) == SubSeq(s, 1, FirstColon(s) - 1)
RightOf(s) == SubSeq(s, FirstColon(s) + 1, Len(s))

WithSlash(p) == IF At(p, 1) = "/" THEN p ELSE <<"/">> \o p

ScanCompleted == idx > Len(lines)

\* the scan has ended and main.py:441 found a domain name
DomainFound == op = "setup_cdn_with_text" /\ pc \in {"cache", "done"}
               /\ ScanCompleted /\ ~NoDomain(draft)

----------------------------------------------------------------------------
(* C1 *)

NoSuffixLine ==
    LET raw == Split(input, "\n")
    IN  \A i \in 1..Len(raw) : ~Has(raw[i], SUFFIX)

\* C1: when no line of the text contains '.xiangyuncdn.com', setup_cdn_with_text
\* returns the missing-domain message as its result (it does not raise) and no
\* request has reached the service, whatever the other lines are.
C1_MissingDomainReturned ==
    (op = "setup_cdn_with_text" /\ Done /\ NoSuffixLine)
        => (result = Ok(MissingDomainMsg) /\ calls = <<>>)

----------------------------------------------------------------------------
(* C2 *)

\* C2: a header string with at least one colon is split at its first colon only,
\* key and value being the trimmed text before and after it (the value keeps any
\* further colon); a string with no colon fails with ValueError.
C2_HeaderSplitsOnFirstColon ==
    (op = "parse_header" /\ Done /\ input.kind = "str")
        => IF Colons(input.str) >= 1
           THEN result = Ok([key |-> Strip(LeftOf(input.str)),
                             value |-> Strip(RightOf(input.str))])
           ELSE result = Raise("ValueError")

----------------------------------------------------------------------------
(* C3 *)

\* the argument list the cache rule strings give, pair by pair, in their order
RuleStringArgs(rules) ==
    [k \in 1..(2 * Len(rules)) |->
        IF k % 2 = 1 THEN Arg("ttl", RightOf(rules[(k + 1) \div 2]))
        ELSE Arg("path", <<"/">> \o LeftOf(rules[k \div 2]))]

\* C3: in setup_cdn_with_text no request is sent while the lines are scanned; once
\* the scan ended with a domain name, add-domain is the first request and is sent
\* once; set-cache is sent at most once, only after add-domain succeeded, exactly
\* when cache rules were accumulated, with the rules in accumulation order; nothing
\* else (no delete) is sent; a failed request ends the invocation with that failure.
C3_SetupCallOrder ==
    op = "setup_cdn_with_text" =>
        /\ pc = "scan" => calls = <<>>
        /\ Len(calls) <= 2
        /\ \A i \in 1..Len(calls) :
               calls[i].request.api = IF i = 1 THEN "add_cdn_domain"
                                      ELSE "batch_set_cdn_domain_config"
        /\ Len(calls) = 2 =>
               /\ calls[1].ok
               /\ draft.cache_rules # <<>>
               /\ calls[2].request.domain_names = draft.domain_name[1]
               /\ Len(calls[2].request.functions) = 1
               /\ calls[2].request.functions[1].functionName = "cache_ttl"
               /\ calls[2].request.functions[1].functionArgs = RuleStringArgs(draft.cache_rules)
        /\ DomainFound =>
               /\ Len(calls) >= 1
               /\ calls[1].request.domain_name = draft.domain_name[1]
               /\ ~calls[1].ok => (Done /\ Len(calls) = 1 /\ result = Raise("ServiceFailure"))
        /\ (DomainFound /\ Done /\ calls[1].ok) =>
               /\ Len(calls) = 2 <=> draft.cache_rules # <<>>
               /\ IF Len(calls) = 2 /\ ~calls[2].ok
                  THEN result = Raise("ServiceFailure")
                  ELSE result = Ok(Summary(Msg("add-ok", draft.domain_name[1])))

\* add-domain succeeded, set-cache was sent with several rules and failed
C3_Witness ==
    /\ DomainFound /\ Done
    /\ Len(calls) = 2 /\ calls[1].ok /\ ~calls[2].ok
    /\ Len(draft.cache_rules) > 1
    /\ result = Raise("ServiceFailure")

----------------------------------------------------------------------------
(* C4 *)

Confirmation(r) == r.exc = "none" /\ r.val.domain = input.domain_name

\* C4 as stated: every invocation of a direct operation sends exactly one request;
\* the confirmation is returned only if it succeeded, else its failure propagates.
C4_ExactlyOneCall ==
    (op \in DirectOps /\ Done) =>
        /\ Len(calls) = 1
        /\ IF calls[1].ok THEN Confirmation(result) ELSE result = Raise("ServiceFailure")

\* C4 amended: a direct operation sends at most one request, never a second one:
\* exactly one unless it raised before reaching the service (a normalizer rejecting
\* its input), in which case it sends none and that exception is what the caller
\* gets; the operations that normalize nothing always send one. The confirmation is
\* returned only if the request succeeded; a failed request propagates.
C4_AtMostOneCall ==
    (op \in DirectOps /\ Done) =>
        /\ Len(calls) <= 1
        /\ Len(calls) = 0 <=> result.exc \in {"ValueError", "KeyError"}
        /\ Len(calls) = 0 => op \in {"add_cdn_domain", "set_cdn_cache", "set_cdn_headers"}
        /\ Len(calls) = 1 =>
               IF calls[1].ok THEN Confirmation(result) ELSE result = Raise("ServiceFailure")

\* a direct operation whose single request failed
C4_Witness ==
    /\ op = "set_cdn_headers" /\ Done
    /\ Len(calls) = 1 /\ ~calls[1].ok
    /\ result = Raise("ServiceFailure")

----------------------------------------------------------------------------
(* C5 *)

\* C5: parse_source_info of a string with the 'oss://' prefix yields type oss, the
\* string without that prefix as content and port 80; of any other string, content
\* is the part left of the colon, port the integer right of it (80 without colon)
\* and type is ipaddr exactly when content is a dotted quad, else domain. An input
\* that is neither a string nor a record fails with ValueError.
C5_SourceInfo ==
    (op = "parse_source_info" /\ Done) =>
        /\ input.kind = "other" => result = Raise("ValueError")
        /\ (input.kind = "str" /\ StartsWith(input.str, OssPrefix)) =>
               result = Ok([type |-> "oss",
                            content |-> SubSeq(input.str, Len(OssPrefix) + 1, Len(input.str)),
                            port |-> 80])
        /\ (input.kind = "str" /\ ~StartsWith(input.str, OssPrefix) /\ Colons(input.str) = 0) =>
               result = Ok([type |-> IF IsDottedQuad(input.str) THEN "ipaddr" ELSE "domain",
                            content |-> input.str,
                            port |-> 80])
        /\ (/\ input.kind = "str" /\ ~StartsWith(input.str, OssPrefix)
            /\ Colons(input.str) = 1 /\ IsIntLiteral(RightOf(input.str))) =>
               result = Ok([type |-> IF IsDottedQuad(LeftOf(input.str))
                                     THEN "ipaddr" ELSE "domain",
                            content |-> LeftOf(input.str),
                            port |-> IntOf(RightOf(input.str))])

----------------------------------------------------------------------------
(* C6 *)

Malformed(rule) ==
    rule.kind = "str" /\ (Colons(rule.str) # 1 \/ ~IsIntLiteral(RightOf(rule.str)))

\* C6: parse_cache_rule of a string fails with ValueError when splitting on ':'
\* does not give two parts or the ttl part is no integer; otherwise ttl is that
\* integer and path_pattern starts with '/', the pattern itself if it already did,
\* else the pattern after one '/'. In set_cdn_cache a malformed rule anywhere in the
\* list ends the operation with ValueError before any request is sent.
C6_CacheRule ==
    /\ (op = "parse_cache_rule" /\ Done /\ input.kind = "str") =>
           IF Malformed(input)
           THEN result = Raise("ValueError")
           ELSE /\ result.exc = "none"
                /\ result.val.ttl = IntOf(RightOf(input.str))
                /\ result.val.path_pattern = WithSlash(LeftOf(input.str))
                /\ result.val.path_pattern[1] = "/"
    /\ (/\ op = "set_cdn_cache" /\ Done
        /\ \E i \in 1..Len(Wrap(input.cache_rules)) : Malformed(Wrap(input.cache_rules)[i])) =>
           (calls = <<>> /\ result = Raise("ValueError"))

\* set_cdn_cache given a list whose first rule is well formed and whose second is not
C6_Witness ==
    /\ op = "set_cdn_cache" /\ Done
    /\ input.cache_rules.shape = "list" /\ Len(input.cache_rules.items) = 2
    /\ input.cache_rules.items[1].kind = "str" /\ ~Malformed(input.cache_rules.items[1])
    /\ Malformed(input.cache_rules.items[2])
    /\ calls = <<>> /\ result = Raise("ValueError")

----------------------------------------------------------------------------
(* C7 *)

SatisfiesOriginInvariant(d, usedPrefix) ==
    /\ d.type = "ipaddr" => (d.content # None /\ IsDottedQuad(d.content))
    /\ d.type = "oss" => usedPrefix

\* C7: every origin descriptor in an add-domain request, produced from a shorthand
\* string or built from the draft of setup_cdn_with_text, has type ipaddr only if
\* its content is a dotted quad and type oss only if the input used 'oss://'.
C7_OriginInvariant ==
    \A i \in 1..Len(calls) :
        calls[i].request.api = "add_cdn_domain" =>
            \A j \in 1..Len(calls[i].request.sources) :
                IF op = "setup_cdn_with_text"
                THEN SatisfiesOriginInvariant(calls[i].request.sources[j],
                                              Contains(input, OssPrefix))
                ELSE Wrap(input.sources)[j].kind = "str" =>
                         SatisfiesOriginInvariant(
                             calls[i].request.sources[j],
                             StartsWith(Wrap(input.sources)[j].str, OssPrefix))

----------------------------------------------------------------------------
(* C8 *)

DraftFields ==
    {"domain_name", "cdn_type", "source_type", "source_ip", "source_port", "cache_rules"}

\* the draft field of the first category the line matches, in priority order
Category(line) ==
    LET order == <<<<SUFFIX, "domain_name">>, <<KW_ACCEL, "cdn_type">>,
                   <<KW_OTYPE, "source_type">>, <<KW_IPADDR, "source_ip">>,
                   <<KW_PORT, "source_port">>, <<KW_CACHE, "cache_rules">>>>
        hits == {k \in 1..Len(order) : Has(line, order[k][1])}
    IN  IF hits = {} THEN "none"
        ELSE order[CHOOSE k \in hits : \A h \in hits : k <= h][2]

IsPrefix(a, b) == Len(a) <= Len(b) /\ SubSeq(b, 1, Len(a)) = a

\* C8: one step of the scan changes at most the draft field of the first category
\* the line matches in the order domain > acceleration type > origin type > IP >
\* port > cache, a line of no category changes nothing; a domain line sets
\* domain_name to the line, an acceleration or origin type line sets its field to
\* the type it names, an IP or port line sets its field from the line, a cache
\* line only appends to cache_rules.
C8_LineChangesOneField ==
    [][(op = "setup_cdn_with_text" /\ pc = "scan" /\ idx <= Len(lines)) =>
         LET line == lines[idx]
             c == Category(line)
         IN  /\ \A f \in DraftFields \ {c} : draft'[f] = draft[f]
             /\ pc' = "scan" =>
                  /\ c = "domain_name" => draft'.domain_name = <<line>>
                  /\ (c = "cdn_type" /\ Has(line, KW_DOWNLOAD)) =>
                         draft'.cdn_type = <<"download">>
                  /\ (c = "source_type" /\ Has(line, "ipaddr")) =>
                         draft'.source_type = <<"ipaddr">>
                  /\ c = "source_ip" => draft'.source_ip = FirstQuad(line)
                  /\ c = "source_port" =>
                         draft'.source_port = <<IntOf(FirstDigitRun(line)[1])>>
                  /\ c = "cache_rules" =>
                         /\ IsPrefix(draft.cache_rules, draft'.cache_rules)
                         /\ Len(draft'.cache_rules) > Len(draft.cache_rules)
      ]_vars

\* a line with both the port and the cache keyword was scanned as a port line
C8_Witness ==
    /\ op = "setup_cdn_with_text" /\ idx = 2
    /\ Has(lines[1], KW_PORT) /\ Has(lines[1], KW_CACHE)
    /\ draft.source_port = <<2>> /\ draft.cache_rules = <<>>

----------------------------------------------------------------------------
(* C9 *)

ClaimedHours(line) ==
    IF FirstDigitRun(line) = <<>> THEN 1
    ELSE IF Has(line, KW_DAY) THEN IntOf(FirstDigitRun(line)[1]) * 24
    ELSE IntOf(FirstDigitRun(line)[1])

ClaimedRules(line) ==
    LET exts == Split(CachePattern(line), ",")
    IN  [i \in 1..Len(exts) |-> exts[i] \o <<":">> \o IntToStr(ClaimedHours(line) * 3600)]

IsSuffix(a, b) == Len(a) <= Len(b) /\ SubSeq(b, Len(b) - Len(a) + 1, Len(b)) = a

\* C9: a cache line never ends the scan with an exception, and when the scan has
\* ended on a cache line cache_rules ends with one '<ext>:<ttl>' per extension of
\* the line's group, in group order, where ttl is 3600 times the hours: the first
\* digit run times 24 with a day marker, the first digit run without one, 1 when
\* the line has no digit run.
C9_CacheLineRules ==
    (op = "setup_cdn_with_text" /\ Done) =>
        /\ ~ScanCompleted => Category(lines[idx]) # "cache_rules"
        /\ (ScanCompleted /\ lines # <<>> /\ Category(lines[Len(lines)]) = "cache_rules") =>
               IsSuffix(ClaimedRules(lines[Len(lines)]), draft.cache_rules)

----------------------------------------------------------------------------
(* C10 *)

RuleTtl(rule) == IF rule.kind = "dict" THEN rule.dict.ttl ELSE IntOf(RightOf(rule.str))
RulePath(rule) ==
    IF rule.kind = "dict" THEN rule.dict.path_pattern ELSE WithSlash(LeftOf(rule.str))

\* C10: the request set_cdn_cache sends for n rules holds one function config,
\* 'cache_ttl', whose argument list has 2n entries: for the i-th rule, (ttl, str of
\* its ttl) immediately followed by (path, its normalized path_pattern), the pairs
\* in the order of the rules.
C10_CacheArgsPaired ==
    (op = "set_cdn_cache" /\ Done /\ calls # <<>>) =>
        LET rules == Wrap(input.cache_rules)
            fs == calls[1].request.functions
        IN  /\ Len(calls) = 1 /\ Len(fs) = 1
            /\ fs[1].functionName = "cache_ttl"
            /\ Len(fs[1].functionArgs) = 2 * Len(rules)
            /\ \A i \in 1..Len(rules) :
                   /\ fs[1].functionArgs[2 * i - 1] = Arg("ttl", IntToStr(RuleTtl(rules[i])))
                   /\ fs[1].functionArgs[2 * i] = Arg("path", RulePath(rules[i]))

\* two different rules, the second with a ttl written with a leading zero
C10_Witness ==
    /\ op = "set_cdn_cache" /\ Done /\ Len(calls) = 1
    /\ input.cache_rules.shape = "list" /\ Len(input.cache_rules.items) = 2
    /\ input.cache_rules.items[1] # input.cache_rules.items[2]
    /\ input.cache_rules.items[2] = StrArg(<<"/", "a", ":", "0", "7">>)

====
